---- MODULE Spec2Model ----
(***************************************************************************)
(* Feature Style Resolver: the three dash-leaflet callbacks registered in  *)
(* window.dashExtensions.default by the two variants of                    *)
(* dashExtensions_default.js:                                              *)
(*   "flat"    = src/assets/dashExtensions_default.js (fillColor property) *)
(*   "cluster" = src/unnamed/part_000 (cluster-indexed color lookup)       *)
(*                                                                         *)
(* JavaScript values are tagged records.  A number is held as an integer   *)
(* count of hundredths (1 is Num(100), 0.8 is Num(80)).  A string is a     *)
(* TLA+ string; the only non-ASCII character of the source, the en dash    *)
(* U+2013 of the tooltip separator, is written as the six characters       *)
(* \u2013.                                                                 *)
(***************************************************************************)
EXTENDS Integers, Sequences, FiniteSets, TLC

VARIABLES registry, layers, call, mark

vars == <<registry, layers, call, mark>>

(***************************************************************************)
(* JavaScript values                                                       *)
(***************************************************************************)
Undefined == [t |-> "undefined"]

Null == [t |-> "null"]

Str(s) == [t |-> "string", s |-> s]

Num(h) == [t |-> "number", h |-> h]

Bool(b) == [t |-> "boolean", b |-> b]

Obj(p) == [t |-> "object", props |-> p]

Fn(variant, name) == [t |-> "function", variant |-> variant, name |-> name]

EmptyProps == [k \in {} |-> Undefined]

(* outcome of evaluating a function body *)
Return(v) == [kind |-> "return", value |-> v]

Throw(e) == [kind |-> "throw", error |-> e]

(* typeof v *)
TypeOf(v) == IF v.t = "null" THEN "object" ELSE v.t

(* ToBoolean, as used by the || operator *)
Truthy(v) ==
    CASE v.t = "undefined" -> FALSE
      [] v.t = "null" -> FALSE
      [] v.t = "string" -> v.s # ""
      [] v.t = "number" -> v.h # 0
      [] v.t = "boolean" -> v.b
      [] OTHER -> TRUE

(* a || b *)
Or(a, b) == IF Truthy(a) THEN a ELSE b

Digit(d) == CASE d = 0 -> "0" [] d = 1 -> "1" [] d = 2 -> "2" [] d = 3 -> "3"
              [] d = 4 -> "4" [] d = 5 -> "5" [] d = 6 -> "6" [] d = 7 -> "7"
              [] d = 8 -> "8" [] d = 9 -> "9"

RECURSIVE NatToString(_)
NatToString(n) == IF n < 10 THEN Digit(n) ELSE NatToString(n \div 10) \o Digit(n % 10)

(* Number::toString of a number held in hundredths *)
NumberToString(h) ==
    LET a == IF h < 0 THEN -h ELSE h
        whole == NatToString(a \div 100)
        frac == a % 100
        tail == IF frac = 0 THEN ""
                ELSE IF frac % 10 = 0 THEN "." \o Digit(frac \div 10)
                ELSE "." \o Digit(frac \div 10) \o Digit(frac % 10)
    IN (IF h < 0 THEN "-" ELSE "") \o whole \o tail

(* ToString of the language, as used by string concatenation and by property keys *)
JSToString(v) ==
    CASE v.t = "undefined" -> "undefined"
      [] v.t = "null" -> "null"
      [] v.t = "string" -> v.s
      [] v.t = "number" -> NumberToString(v.h)
      [] v.t = "boolean" -> IF v.b THEN "true" ELSE "false"
      [] OTHER -> "[object Object]"

(* a + b where one operand is a string *)
Concat(a, b) == Str(JSToString(a) \o JSToString(b))

(* can a member be read from v without a TypeError *)
HasMembers(v) == v.t \notin {"undefined", "null"}

(* properties every object literal inherits from Object.prototype *)
ObjectPrototypeKeys ==
    {"constructor", "toString", "valueOf", "hasOwnProperty", "isPrototypeOf",
     "propertyIsEnumerable", "toLocaleString", "__proto__"}

(* o[key] for an object o: own property, then the prototype, else undefined *)
Get(o, key) ==
    LET k == JSToString(key)
    IN IF o.t = "object" /\ k \in DOMAIN o.props THEN o.props[k]
       ELSE IF o.t = "object" /\ k \in ObjectPrototypeKeys THEN Fn("builtin", k)
       ELSE Undefined

(* what one invocation of a callback does: how it ends, the feature object  *)
(* as the callback leaves it, and the method calls it made on its layer     *)
Effect(outcome, feature, calls) ==
    [outcome |-> outcome, feature |-> feature, calls |-> calls]

(***************************************************************************)
(* src/assets/dashExtensions_default.js  (variant "flat")                  *)
(***************************************************************************)
(* variants of function0 with a slip: the property read from the feature  *)
(* itself, the other preset's constants, the fallback written back        *)
function0FlatWrongPath(feature, context) ==
    LET properties == Get(feature, Str("properties"))
    IN IF ~HasMembers(properties) THEN Effect(Throw("TypeError"), feature, <<>>)
       ELSE Effect(Return(Obj([color |-> Str("#0f172a"),
                               weight |-> Num(100),
                               fillColor |-> Or(Get(feature, Str("fillColor")),
                                                Str("#9ca3af")),
                               fillOpacity |-> Num(80)])),
                   feature, <<>>)

function0FlatOtherPreset(feature, context) ==
    LET properties == Get(feature, Str("properties"))
    IN IF ~HasMembers(properties) THEN Effect(Throw("TypeError"), feature, <<>>)
       ELSE Effect(Return(Obj([color |-> Str("#ffffff"),
                               weight |-> Num(100),
                               fillColor |-> Or(Get(properties, Str("fillColor")),
                                                Str("#808080")),
                               fillOpacity |-> Num(70)])),
                   feature, <<>>)

function0FlatWritesBack(feature, context) ==
    LET properties == Get(feature, Str("properties"))
        fill == Or(Get(properties, Str("fillColor")), Str("#9ca3af"))
    IN IF ~HasMembers(properties) THEN Effect(Throw("TypeError"), feature, <<>>)
       ELSE Effect(Return(Obj([color |-> Str("#0f172a"),
                               weight |-> Num(100),
                               fillColor |-> fill,
                               fillOpacity |-> Num(80)])),
                   Obj([properties |->
                           Obj([k \in DOMAIN properties.props \cup {"fillColor"} |->
                                   IF k = "fillColor" THEN fill ELSE properties.props[k]])]),
                   <<>>)

function0Flat(feature, context) ==
    LET properties == Get(feature, Str("properties"))
    IN IF ~HasMembers(properties) THEN Effect(Throw("TypeError"), feature, <<>>)
       ELSE Effect(Return(Obj([color |-> Str("#0f172a"),
                               weight |-> Num(100),
                               fillColor |-> Or(Get(properties, Str("fillColor")),
                                                Str("#9ca3af")),
                               fillOpacity |-> Num(80)])),
                   feature, <<>>)

(* function1 with the stroke color taken from the feature *)
function1FlatFromFeature(feature, context) ==
    LET properties == Get(feature, Str("properties"))
    IN Effect(Return(Obj([weight |-> Num(300),
                          color |-> Or(Get(properties, Str("fillColor")), Str("#e5e7eb")),
                          fillOpacity |-> Num(95)])),
              feature, <<>>)

function1Flat(feature, context) ==
    Effect(Return(Obj([weight |-> Num(300),
                       color |-> Str("#e5e7eb"),
                       fillOpacity |-> Num(95)])),
           feature, <<>>)

(* function2 that binds nothing when the place name is absent *)
function2FlatSkipsAbsent(feature, layer, context) ==
    LET properties == Get(feature, Str("properties"))
        kabkot == Get(properties, Str("kabkot"))
        label == Get(properties, Str("cluster_label"))
    IN IF ~HasMembers(properties) THEN Effect(Throw("TypeError"), feature, <<>>)
       ELSE IF ~Truthy(kabkot) THEN Effect(Return(Undefined), feature, <<>>)
       ELSE Effect(Return(Undefined), feature,
                   << [method |-> "bindTooltip",
                       content |-> Concat(Concat(kabkot, Str(" \\u2013 ")), label),
                       options |-> Obj([sticky |-> Bool(TRUE)])] >>)

function2Flat(feature, layer, context) ==
    LET properties == Get(feature, Str("properties"))
        kabkot == Get(properties, Str("kabkot"))
        label == Get(properties, Str("cluster_label"))
    IN IF ~HasMembers(properties) THEN Effect(Throw("TypeError"), feature, <<>>)
       ELSE Effect(Return(Undefined), feature,
                   << [method |-> "bindTooltip",
                       content |-> Concat(Concat(kabkot, Str(" \\u2013 ")), label),
                       options |-> Obj([sticky |-> Bool(TRUE)])] >>)

(***************************************************************************)
(* src/unnamed/part_000  (variant "cluster")                               *)
(***************************************************************************)
(* variants of function0 with a slip: the lookup keyed from 1, no fallback *)
function0ClusterOneBased(feature, context) ==
    LET properties == Get(feature, Str("properties"))
        cl == Get(properties, Str("cluster"))
        colors == Obj([k \in {"1", "2"} |->
                          IF k = "1" THEN Str("#1f77b4") ELSE Str("#ff7f0e")])
    IN IF ~HasMembers(properties) THEN Effect(Throw("TypeError"), feature, <<>>)
       ELSE Effect(Return(Obj([color |-> Str("#ffffff"),
                               weight |-> Num(100),
                               fillColor |-> Or(Get(colors, cl), Str("#808080")),
                               fillOpacity |-> Num(70)])),
                   feature, <<>>)

function0ClusterNoFallback(feature, context) ==
    LET properties == Get(feature, Str("properties"))
        cl == Get(properties, Str("cluster"))
        colors == Obj([k \in {"0", "1"} |->
                          IF k = "0" THEN Str("#1f77b4") ELSE Str("#ff7f0e")])
    IN IF ~HasMembers(properties) THEN Effect(Throw("TypeError"), feature, <<>>)
       ELSE Effect(Return(Obj([color |-> Str("#ffffff"),
                               weight |-> Num(100),
                               fillColor |-> Get(colors, cl),
                               fillOpacity |-> Num(70)])),
                   feature, <<>>)

function0Cluster(feature, context) ==
    LET properties == Get(feature, Str("properties"))
        cl == Get(properties, Str("cluster"))
        colors == Obj([k \in {"0", "1"} |->
                          IF k = "0" THEN Str("#1f77b4") ELSE Str("#ff7f0e")])
    IN IF ~HasMembers(properties) THEN Effect(Throw("TypeError"), feature, <<>>)
       ELSE Effect(Return(Obj([color |-> Str("#ffffff"),
                               weight |-> Num(100),
                               fillColor |-> Or(Get(colors, cl), Str("#808080")),
                               fillOpacity |-> Num(70)])),
                   feature, <<>>)

function1Cluster(feature, context) ==
    Effect(Return(Obj([weight |-> Num(300),
                       color |-> Str("#000000"),
                       fillOpacity |-> Num(90)])),
           feature, <<>>)

(* function2 that adds its text to the tooltip the layer already has *)
function2ClusterAppends(feature, layer, context) ==
    LET properties == Get(feature, Str("properties"))
        kabkot == Get(properties, Str("kabkot"))
        label == Get(properties, Str("cluster_label"))
        text == Concat(Concat(kabkot, Str(" \\u2013 ")), label)
    IN IF ~HasMembers(properties) THEN Effect(Throw("TypeError"), feature, <<>>)
       ELSE Effect(Return(Undefined), feature,
                   << [method |-> "bindTooltip",
                       content |-> IF layer.tooltip = Undefined THEN text
                                   ELSE Concat(Concat(layer.tooltip.content, Str("<br>")), text),
                       options |-> Obj([sticky |-> Bool(TRUE)])] >>)

function2Cluster(feature, layer, context) ==
    LET properties == Get(feature, Str("properties"))
        kabkot == Get(properties, Str("kabkot"))
        label == Get(properties, Str("cluster_label"))
    IN IF ~HasMembers(properties) THEN Effect(Throw("TypeError"), feature, <<>>)
       ELSE Effect(Return(Undefined), feature,
                   << [method |-> "bindTooltip",
                       content |-> Concat(Concat(kabkot, Str(" \\u2013 ")), label),
                       options |-> Obj([sticky |-> Bool(TRUE)])] >>)

(***************************************************************************)
(* The registry window.dashExtensions                                      *)
(***************************************************************************)
Variants == {"flat", "cluster"}

(* the object literal { default: { function0, function1, function2 } } *)
DefaultNamespace(variant) ==
    Obj([default |-> Obj([function0 |-> Fn(variant, "function0"),
                          function1 |-> Fn(variant, "function1"),
                          function2 |-> Fn(variant, "function2")])])

(* one source of Object.assign: own properties copied over the target's; *)
(* an undefined or null source is skipped                                *)
(* a merge in which a key the target already has is kept *)
AssignFromKeepsExisting(target, source) ==
    IF ~HasMembers(source) THEN target
    ELSE Obj([k \in DOMAIN target.props \cup DOMAIN source.props |->
                 IF k \in DOMAIN target.props THEN target.props[k]
                 ELSE source.props[k]])

AssignFrom(target, source) ==
    IF ~HasMembers(source) THEN target
    ELSE Obj([k \in DOMAIN target.props \cup DOMAIN source.props |->
                 IF k \in DOMAIN source.props THEN source.props[k]
                 ELSE target.props[k]])

(* Object.assign(target, s1, s2) *)
ObjectAssign(target, s1, s2) == AssignFrom(AssignFrom(target, s1), s2)

(* the statement each script runs when it is loaded *)
Script(variant, dashExtensions) ==
    ObjectAssign(Obj(EmptyProps), dashExtensions, DefaultNamespace(variant))

(* the body a registered function value stands for *)
Apply(fn, feature, layer, context) ==
    CASE fn = Fn("flat", "function0") -> function0Flat(feature, context)
      [] fn = Fn("flat", "function1") -> function1Flat(feature, context)
      [] fn = Fn("flat", "function2") -> function2Flat(feature, layer, context)
      [] fn = Fn("cluster", "function0") -> function0Cluster(feature, context)
      [] fn = Fn("cluster", "function1") -> function1Cluster(feature, context)
      [] fn = Fn("cluster", "function2") -> function2Cluster(feature, layer, context)

(* layer.bindTooltip(content, options) of the map library: the layer's *)
(* tooltip binding becomes the given content and options               *)
LayerBindTooltip(layer, content, options) ==
    [layer EXCEPT !.tooltip = [content |-> content, options |-> options]]

RECURSIVE LayerAfter(_, _)
LayerAfter(layer, calls) ==
    IF calls = <<>> THEN layer
    ELSE LayerAfter(LayerBindTooltip(layer, Head(calls).content, Head(calls).options),
                    Tail(calls))

(***************************************************************************)
(* Inputs the host supplies                                                *)
(***************************************************************************)
NumLayers == 2

Layers == 1..NumLayers

FillColors == {Undefined, Str(""), Str("#ef4444")}

Clusters == {Undefined, Num(0), Num(100), Num(500)}

Kabkots == {Undefined, Str("Kota A")}

ClusterLabels == {Undefined, Str("Cluster 1")}

PropertyKeys == {"fillColor", "cluster", "kabkot", "cluster_label"}

(* a properties mapping; a key whose value is Undefined is left out *)
Properties(fc, cl, kk, lb) ==
    LET all == [k \in PropertyKeys |->
                   CASE k = "fillColor" -> fc
                     [] k = "cluster" -> cl
                     [] k = "kabkot" -> kk
                     [] k = "cluster_label" -> lb]
    IN Obj([k \in {j \in PropertyKeys : all[j] # Undefined} |-> all[k]])

(* the (fillColor, cluster) pairs the style callbacks are tried on *)
StylePairs ==
    {<<fc, Undefined>> : fc \in FillColors}
    \cup {<<Undefined, cl>> : cl \in Clusters}
    \cup {<<Str("#ef4444"), Num(0)>>, <<Str(""), Num(100)>>}

(* GeoJSON features: properties is a mapping, null, or the member is missing *)
Features ==
    {Obj(EmptyProps), Obj([properties |-> Null])}
    \cup {Obj([properties |-> Properties(sp[1], sp[2], Str("Kota A"), Str("Cluster 1"))]) :
              sp \in StylePairs}
    \cup {Obj([properties |-> Properties(Undefined, Undefined, kk, lb)]) :
              kk \in Kabkots, lb \in ClusterLabels}

(* the features handed to function2: every combination of the two tooltip *)
(* properties, with and without the style properties                      *)
TooltipFeatures ==
    {Obj(EmptyProps), Obj([properties |-> Null]),
     Obj([properties |-> Properties(Str("#ef4444"), Num(0), Str("Kota A"), Str("Cluster 1"))])}
    \cup {Obj([properties |-> Properties(Undefined, Undefined, kk, lb)]) :
              kk \in Kabkots, lb \in ClusterLabels}

(* the features of the recomputation runs *)
MarkFeatures ==
    {Obj(EmptyProps),
     Obj([properties |-> Properties(Str("#ef4444"), Num(0), Str("Kota A"), Str("Cluster 1"))]),
     Obj([properties |-> Properties(Str(""), Num(100), Str("Kota A"), Undefined)]),
     Obj([properties |-> Properties(Undefined, Num(500), Undefined, Undefined)])}

Contexts == {Undefined, Obj([id |-> Str("geojson")])}

(* a namespace some other script of the page registered before *)
OtherNamespace == Obj([myNamespace |-> Obj([function0 |-> Fn("other", "function0")])])

NoLayer == 0

NoCall == [op |-> "none"]

NoMark == [set |-> FALSE]

(***************************************************************************)
(* State machine                                                           *)
(***************************************************************************)
Init ==
    /\ registry \in {Undefined, OtherNamespace}
    /\ layers = [l \in Layers |-> [tooltip |-> Undefined]]
    /\ call = NoCall
    /\ mark = NoMark

(* the page loads src/assets/dashExtensions_default.js *)
LoadFlat ==
    /\ registry' = Script("flat", registry)
    /\ call' = [op |-> "load", variant |-> "flat"]
    /\ UNCHANGED <<layers, mark>>

(* the page loads src/unnamed/part_000 *)
LoadCluster ==
    /\ registry' = Script("cluster", registry)
    /\ call' = [op |-> "load", variant |-> "cluster"]
    /\ UNCHANGED <<layers, mark>>

Registered(name) ==
    /\ registry.t = "object"
    /\ "default" \in DOMAIN registry.props
    /\ name \in DOMAIN registry.props["default"].props

Lookup(name) == registry.props["default"].props[name]

CallRecord(name, fn, feature, l, context, eff) ==
    [op |-> name, fn |-> fn, feature |-> feature, layer |-> l, context |-> context,
     outcome |-> eff.outcome, featureAfter |-> eff.feature, calls |-> eff.calls]

(* the host computes a style: function0 on render, function1 on hover; *)
(* a run may remember one computation to compare later ones with       *)
StyleCall(name, F, C, latches) ==
    /\ Registered(name)
    /\ \E feature \in F, context \in C, latch \in latches :
          LET fn == Lookup(name)
              eff == Apply(fn, feature, Undefined, context)
          IN /\ call' = CallRecord(name, fn, feature, NoLayer, context, eff)
             /\ mark' = IF latch /\ ~mark.set
                        THEN [set |-> TRUE, fn |-> fn, feature |-> feature,
                              outcome |-> eff.outcome]
                        ELSE mark
    /\ UNCHANGED <<registry, layers>>

(* the host hands a feature and its layer to function2 (onEachFeature) *)
TooltipCall(F, C) ==
    /\ Registered("function2")
    /\ \E feature \in F, l \in Layers, context \in C :
          LET fn == Lookup("function2")
              eff == Apply(fn, feature, layers[l], context)
          IN /\ call' = CallRecord("function2", fn, feature, l, context, eff)
             /\ layers' = [layers EXCEPT ![l] = LayerAfter(layers[l], eff.calls)]
    /\ UNCHANGED <<registry, mark>>

CallFunction0 == StyleCall("function0", Features, Contexts, {FALSE})

CallFunction1 == StyleCall("function1", Features, Contexts, {FALSE})

CallFunction2 == TooltipCall(TooltipFeatures, Contexts)

Next ==
    \/ LoadFlat
    \/ LoadCluster
    \/ CallFunction0
    \/ CallFunction1
    \/ CallFunction2

Spec == Init /\ [][Next]_vars

(* runs that remember one style computation and later recompute it *)
MarkFunction0 == StyleCall("function0", MarkFeatures, {Undefined}, BOOLEAN)

MarkFunction1 == StyleCall("function1", MarkFeatures, {Undefined}, BOOLEAN)

MarkFunction2 == TooltipCall(MarkFeatures, {Undefined})

NextMark ==
    \/ LoadFlat
    \/ LoadCluster
    \/ MarkFunction0
    \/ MarkFunction1
    \/ MarkFunction2

SpecMark == Init /\ [][NextMark]_vars

TypeOK ==
    /\ registry.t \in {"undefined", "object"}
    /\ \A l \in Layers : layers[l].tooltip = Undefined \/ layers[l].tooltip.content.t = "string"
    /\ call.op \in {"none", "load", "function0", "function1", "function2"}

(***************************************************************************)
(* Vocabulary of the properties                                            *)
(***************************************************************************)
IsCall(name, variant) == call.op = name /\ call.fn = Fn(variant, name)

Returned == call.outcome.kind = "return"

(* the feature of the last call carries a properties mapping *)
HasProperties ==
    /\ "properties" \in DOMAIN call.feature.props
    /\ call.feature.props["properties"].t = "object"

Given(key) == key \in DOMAIN call.feature.props["properties"].props

Property(key) == call.feature.props["properties"].props[key]

Style == call.outcome.value.props

(* the text of a tooltip part: the string itself, or the word undefined *)
Part(key) == IF Given(key) THEN Property(key).s ELSE "undefined"

(* C1 as stated: in the flat variant, whenever properties.fillColor is set *)
(* (the empty string included), function0 returns exactly that fillColor.  *)
C1_Original ==
    (IsCall("function0", "flat") /\ HasProperties /\ Given("fillColor"))
        => (Returned /\ Style["fillColor"] = Property("fillColor"))

(* C1 amended: in the flat variant, a non-empty properties.fillColor is    *)
(* returned as the style's fillColor; the empty string is replaced by the  *)
(* fallback '#9ca3af'.                                                     *)
C1_NonEmptyFillColor ==
    (IsCall("function0", "flat") /\ HasProperties /\ Given("fillColor"))
        => /\ Returned
           /\ Property("fillColor").s # "" => Style["fillColor"] = Property("fillColor")
           /\ Property("fillColor").s = "" => Style["fillColor"] = Str("#9ca3af")

C1_Witness ==
    /\ IsCall("function0", "flat") /\ HasProperties /\ Given("fillColor")
    /\ Property("fillColor") = Str("#ef4444")
    /\ Returned /\ Style["fillColor"] = Str("#ef4444")

(* C2: in the flat variant, function0 on a feature whose properties has no *)
(* fillColor returns fillColor '#9ca3af', and every style function0        *)
(* returns has color '#0f172a', weight 1 and fillOpacity 0.8.              *)
C2_FallbackAndFixedFields ==
    IsCall("function0", "flat") =>
        /\ (HasProperties /\ ~Given("fillColor"))
              => (Returned /\ Style["fillColor"] = Str("#9ca3af"))
        /\ HasProperties => Returned
        /\ Returned => /\ Style["color"] = Str("#0f172a")
                       /\ Style["weight"] = Num(100)
                       /\ Style["fillOpacity"] = Num(80)

C2_Witness ==
    /\ IsCall("function0", "flat") /\ HasProperties /\ ~Given("fillColor")
    /\ Given("cluster")
    /\ Returned /\ Style["fillColor"] = Str("#9ca3af") /\ Style["weight"] = Num(100)

(* C3: in the cluster variant, function0 returns fillColor '#1f77b4' for   *)
(* cluster 0, '#ff7f0e' for cluster 1, and '#808080' for every other       *)
(* cluster and for an absent cluster.                                      *)
C3_ClusterColors ==
    (IsCall("function0", "cluster") /\ HasProperties) =>
        /\ Returned
        /\ Style["fillColor"] =
              IF Given("cluster") /\ Property("cluster") = Num(0) THEN Str("#1f77b4")
              ELSE IF Given("cluster") /\ Property("cluster") = Num(100) THEN Str("#ff7f0e")
              ELSE Str("#808080")

C3_Witness ==
    /\ IsCall("function0", "cluster") /\ HasProperties
    /\ Given("cluster") /\ Property("cluster") = Num(500)
    /\ Returned /\ Style["fillColor"] = Str("#808080")

(* C4: within one variant, any two calls of function1, whatever their      *)
(* features and contexts, return equal results.                            *)
C4_HighlightConstant ==
    [][(call.op = "function1" /\ call'.op = "function1" /\ call'.fn = call.fn)
          => (call'.outcome = call.outcome /\ call'.outcome.kind = "return")]_vars

C4_Witness ==
    /\ call.op = "function1" /\ Returned
    /\ HasProperties /\ Given("fillColor") /\ Given("cluster")
    /\ call.context # Undefined

(* C5: function2 on a feature with a properties mapping calls               *)
(* layer.bindTooltip exactly once, with the text kabkot, ' \u2013 ',  *)
(* cluster_label and the option sticky: true; an absent kabkot or          *)
(* cluster_label appears as the word undefined and the call still happens. *)
C5_TooltipText ==
    (call.op = "function2" /\ HasProperties) =>
        /\ Returned
        /\ Len(call.calls) = 1
        /\ call.calls[1].method = "bindTooltip"
        /\ call.calls[1].content = Str(Part("kabkot") \o " \\u2013 " \o Part("cluster_label"))
        /\ call.calls[1].options = Obj([sticky |-> Bool(TRUE)])
        /\ layers[call.layer].tooltip =
              [content |-> call.calls[1].content, options |-> call.calls[1].options]

C5_Witness ==
    /\ call.op = "function2" /\ HasProperties
    /\ ~Given("kabkot") /\ Given("cluster_label")
    /\ Len(call.calls) = 1
    /\ layers[call.layer].tooltip.content = Str("undefined \\u2013 Cluster 1")

StyleFields == {"color", "weight", "fillColor", "fillOpacity"}

FieldType(f) == IF f \in {"color", "fillColor"} THEN "string" ELSE "number"

C7_NoException ==
    call.op \in {"function0", "function1", "function2"} => Returned

StyleOps == {"function0", "function1"}

(* a remembered computation is repeated by the last call *)
Recomputed ==
    /\ mark.set
    /\ call.op \in StyleOps
    /\ call.fn = mark.fn
    /\ call.feature = mark.feature

(* the last call rebinds, on the same layer, the feature the call before bound *)
Rebinds ==
    /\ call.op = "function2" /\ call'.op = "function2"
    /\ call'.fn = call.fn
    /\ call'.feature = call.feature
    /\ call'.layer = call.layer

(* C8: whatever calls came in between, recomputing a style with the same   *)
(* function on the same feature gives the result of the remembered         *)
(* computation; a layer's tooltip binding is the content and options of    *)
(* the most recent bindTooltip call on it, changes only by such a call,    *)
(* and rebinding with the same feature leaves it unchanged.                *)
C8_Idempotent ==
    /\ [](Recomputed => call.outcome = mark.outcome)
    /\ []((call.op = "function2" /\ Len(call.calls) > 0) =>
             layers[call.layer].tooltip =
                 [content |-> call.calls[Len(call.calls)].content,
                  options |-> call.calls[Len(call.calls)].options])
    /\ [][/\ \A l \in Layers :
                layers'[l] # layers[l] =>
                    (call'.op = "function2" /\ call'.layer = l /\ Len(call'.calls) > 0)
          /\ Rebinds => layers' = layers]_vars

C8_Witness ==
    /\ Recomputed
    /\ call.outcome.kind = "return"
    /\ \A l \in Layers : layers[l].tooltip # Undefined

(* C9: function0 and function1 leave the feature, every layer and the      *)
(* registry unchanged and call nothing on a layer; function2 changes only  *)
(* the tooltip binding of its own layer and leaves the feature, the other  *)
(* layers and the registry unchanged.                                      *)
C9_Frame ==
    [][/\ call'.op \in StyleOps =>
             /\ call'.featureAfter = call'.feature
             /\ call'.calls = <<>>
             /\ layers' = layers
             /\ registry' = registry
       /\ call'.op = "function2" =>
             /\ call'.featureAfter = call'.feature
             /\ \A l \in Layers \ {call'.layer} : layers'[l] = layers[l]
             /\ registry' = registry]_vars

C9_Witness ==
    /\ call.op = "function2" /\ Returned
    /\ \E l \in Layers \ {call.layer} :
          /\ layers[l].tooltip # Undefined
          /\ layers[l].tooltip # layers[call.layer].tooltip

Namespaces(r) == IF r.t = "object" THEN DOMAIN r.props ELSE {}

DefaultOf(variant) == DefaultNamespace(variant).props["default"]

(* C10: loading a variant keeps every namespace other than default and     *)
(* replaces default as a whole: default is always the three functions of   *)
(* one variant, the one loaded last, and only a load changes the registry. *)
C10_RegistryReplace ==
    /\ []("default" \in Namespaces(registry) =>
             \E v \in Variants : registry.props["default"] = DefaultOf(v))
    /\ [][/\ call'.op = "load" =>
                /\ Namespaces(registry') = Namespaces(registry) \cup {"default"}
                /\ \A k \in Namespaces(registry) \ {"default"} :
                      registry'.props[k] = registry.props[k]
                /\ registry'.props["default"] = DefaultOf(call'.variant)
          /\ call'.op # "load" => registry' = registry]_vars

C10_Witness ==
    /\ call.op = "load" /\ call.variant = "cluster"
    /\ mark.set /\ mark.fn.variant = "flat"
    /\ Namespaces(registry) = {"default", "myNamespace"}
    /\ registry.props["default"] = DefaultOf("cluster")

====
